---- MODULE Spec2Model ----
(***************************************************************************)
(* Model of sql-db-utils: the connection-engine cache with its retrying    *)
(* bootstrap and postcreate hooks (sql_db_utils/session_management.py) and *)
(* the declarative-module cache (sql_db_utils/asyncio/declarative_utils.py)*)
(***************************************************************************)
EXTENDS Integers, Sequences, FiniteSets, TLC

VARIABLES
    cfg,                \* PostgresConfig / ModuleConfig switches, fixed per process
    db_engines,         \* SQLSessionManager._db_engines: identity -> engine
    created,            \* identity -> number of engines create_engine() built for it
    postcreate_auto,    \* SQLSessionManager._postcreate_auto: raw db -> hooks
    postcreate_manual,  \* SQLSessionManager._postcreate_manual: raw db -> hooks
    persisted,          \* server side: identity -> statements durably applied
    hookCalls,          \* identity -> hook functions invoked, in order
    hist,               \* identity -> history of the _get_engine calls for it
    lastCall,           \* outcome of the latest _get_engine call
    nCalls,             \* number of _get_engine calls made
    bootRun,            \* a run of _ensure_engine_connection on its own
    modCfg,             \* DEFER_GEN_REFRESH and whether the codegen extra is installed
    schema,             \* server side: tenant -> tables of the reflected schema
    disk,               \* DECLARATIVES_PATH: module path -> generated artifact
    sys_modules,        \* sys.modules: module path -> module object id
    modules,            \* module objects by id: the path and the names each exposes
    base_classes,       \* base_class_generator: (database, schema) -> tables defined
    declarative_utils,  \* the global declarative_utils table: key -> DeclarativeUtils
    exited,             \* sys.exit(1) was called
    tasks,              \* the other asyncio tasks of the event loop
    lastOp,             \* what the latest binding operation did
    nOps,               \* number of binding operations made
    lookup,             \* a run of get_declarative_class on its own
    threads,            \* threads inside _get_engine, step by step
    naming              \* a run of the key, path and identity formatting on its own

engineVars == <<db_engines, created, postcreate_auto, postcreate_manual,
                persisted, hookCalls, hist, lastCall, nCalls>>

bindingVars == <<modCfg, schema, disk, sys_modules, modules, base_classes,
                 declarative_utils, exited, tasks, lastOp, nOps>>

vars == <<cfg, engineVars, bootRun, bindingVars, lookup, threads, naming>>

-----------------------------------------------------------------------------
(* Bounds of the model *)

MaxCalls == 2
PG_MAX_RETRY == 3
MaxOps == 3
MaxSchemaChanges == 1
MaxNameLen == 3
MaxPartLen == 3

-----------------------------------------------------------------------------
(* Values *)

None == "<None>"

\* Raw database names hooks are registered for, the ones engines are asked
\* for, and the tenant ids callers pass.
RawDbs == {"billing", "audit"}
CallDbs == {"billing"}
TenantArgs == {None, "acme"}

\* Python truthiness of an Optional[str]
Truthy(s) == s # None /\ s # ""

get_fully_qualified_db(database, tenant_id) ==
    IF Truthy(tenant_id) THEN tenant_id \o "__" \o database ELSE database

Identities == {get_fully_qualified_db(d, t) : d \in CallDbs, t \in TenantArgs}

AutoHooks == {"a1", "a2"}
ManualHooks == {"m1"}

\* What an auto hook returns when called: a list of statements or one statement.
HookResult(h) ==
    IF h = "a1" THEN [kind |-> "list", items |-> <<"s1", "s2">>]
                ELSE [kind |-> "single", items |-> <<"s3">>]

\* The statement a manual hook executes through the session it is handed.
ManualStmt(h) == "ms_" \o h

Statements == {"s1", "s2", "s3"}

Count(x, seq) == Cardinality({i \in 1..Len(seq) : seq[i] = x})

Range(seq) == {seq[i] : i \in 1..Len(seq)}

-----------------------------------------------------------------------------
(* _ensure_engine_connection *)

Outcomes == {"ok", "transient", "login", "error"}

\* The attempts the loop makes from iteration i on, given what each attempt
\* would meet: "ok" breaks, a transient OperationalError continues, a
\* "server login has been failing" OperationalError is logged and the loop
\* body ends (the for loop goes on), any other exception propagates.
RECURSIVE EnsureFrom(_, _)
EnsureFrom(outs, i) ==
    IF i > PG_MAX_RETRY THEN <<>>
    ELSE CASE outs[i] = "ok"        -> <<"ok">>
           [] outs[i] = "transient" -> <<"transient">> \o EnsureFrom(outs, i + 1)
           [] outs[i] = "login"     -> <<"login">> \o EnsureFrom(outs, i + 1)
           [] OTHER                 -> <<"error">>

\* Mutation of ensure_engine_connection: the loop has no break, every one of
\* the PG_MAX_RETRY attempts is made.
ensure_engine_connection_no_break(outs) ==
    [log    |-> [i \in 1..PG_MAX_RETRY |-> outs[i]],
     probed |-> outs[PG_MAX_RETRY] = "ok",
     raised |-> outs[PG_MAX_RETRY] = "error"]

ensure_engine_connection(outs) ==
    LET log == EnsureFrom(outs, 1)
        last == IF log = <<>> THEN None ELSE log[Len(log)]
    IN [log    |-> log,
        probed |-> last = "ok",
        raised |-> last = "error"]

-----------------------------------------------------------------------------
(* create_engine *)

\* A new engine object; serial tells the engines of one identity apart.
create_engine(qualified_db_name, serial) ==
    IF cfg.pooling
    THEN [identity |-> qualified_db_name, serial |-> serial, pooled |-> TRUE,
          isolation_level |-> "AUTOCOMMIT"]
    ELSE [identity |-> qualified_db_name, serial |-> serial, pooled |-> FALSE,
          isolation_level |-> "AUTOCOMMIT"]

-----------------------------------------------------------------------------
(* run_postcreate *)

\* session.execute over the statements of one hook result, in order; the
\* statement failStmt raises when it is executed.
RECURSIVE ExecStatements(_, _, _)
ExecStatements(stmts, acc, failStmt) ==
    IF stmts = <<>> THEN acc
    ELSE IF Head(stmts) = failStmt THEN [acc EXCEPT !.failed = TRUE]
    ELSE ExecStatements(Tail(stmts),
                        [acc EXCEPT !.applied = Append(@, Head(stmts))],
                        failStmt)

\* The loop over self._postcreate_auto.get(raw_db, []) inside session.begin().
RECURSIVE RunAutoHooks(_, _, _)
RunAutoHooks(hooks, acc, failStmt) ==
    IF hooks = <<>> \/ acc.failed THEN acc
    ELSE RunAutoHooks(Tail(hooks),
                      ExecStatements(HookResult(Head(hooks)).items,
                                     [acc EXCEPT !.calls = Append(@, Head(hooks))],
                                     failStmt),
                      failStmt)

\* The loop over self._postcreate_manual.get(raw_db, []); the hook manualFail
\* raises when it is called.
RECURSIVE RunManualHooks(_, _, _)
RunManualHooks(hooks, acc, manualFail) ==
    IF hooks = <<>> \/ acc.failed THEN acc
    ELSE LET h == Head(hooks)
             called == [acc EXCEPT !.calls = Append(@, h)]
         IN IF h = manualFail
            THEN [called EXCEPT !.failed = TRUE]
            ELSE RunManualHooks(Tail(hooks),
                                [called EXCEPT !.applied = Append(@, ManualStmt(h))],
                                manualFail)

\* What a transaction block leaves in the database: on an AUTOCOMMIT
\* connection every executed statement is committed as it executes and a
\* rollback undoes nothing; otherwise the block commits all or nothing.
Durable(engine, txn) ==
    IF engine.isolation_level = "AUTOCOMMIT" THEN txn.applied
    ELSE IF txn.failed THEN <<>> ELSE txn.applied

EmptyTxn == [applied |-> <<>>, calls |-> <<>>, failed |-> FALSE]

run_postcreate(engine, raw_db, failStmt, manualFail) ==
    LET auto == RunAutoHooks(postcreate_auto[raw_db], EmptyTxn, failStmt)
        manual == IF auto.failed THEN EmptyTxn
                  ELSE RunManualHooks(postcreate_manual[raw_db], EmptyTxn, manualFail)
    IN [applied   |-> Durable(engine, auto) \o Durable(engine, manual),
        calls     |-> auto.calls \o manual.calls,
        raised    |-> auto.failed \/ manual.failed,
        autoFail  |-> auto.failed,
        autoDone  |-> auto.applied,
        manualFail |-> manual.failed]

-----------------------------------------------------------------------------------------------------------------------------------------------------
(* postcreate_decorator / register_postcreate / register_postcreate_manual *)

\* The decorated functions of the program: each names the raw database (or the
\* list of raw databases) it is registered for.  A decorator is applied once,
\* when the function's definition is executed; the order of the definitions
\* and of the first _get_engine calls is free.
Decorated ==
    {[func |-> "a1", store |-> "_postcreate_auto",
      isList |-> FALSE, raw_db |-> <<"billing">>],
     [func |-> "a2", store |-> "_postcreate_auto",
      isList |-> TRUE, raw_db |-> <<"billing", "audit">>],
     [func |-> "m1", store |-> "_postcreate_manual",
      isList |-> FALSE, raw_db |-> <<"billing">>]}

\* Mutation of postcreate_decorator: func is put at the head of the lists.
postcreate_decorator_prepend(store, isList, raw_db, func) ==
    [db \in RawDbs |->
        IF db \in Range(raw_db) THEN <<func>> \o store[db] ELSE store[db]]

\* postcreate_store after the decorator ran for func: func is appended to the
\* list of the one name, or of each name of the list.
postcreate_decorator(store, isList, raw_db, func) ==
    IF isList
    THEN [db \in RawDbs |->
            IF db \in Range(raw_db) THEN Append(store[db], func) ELSE store[db]]
    ELSE [store EXCEPT ![raw_db[1]] = Append(@, func)]

IsRegistered(func) ==
    \E db \in RawDbs : func \in Range(postcreate_auto[db]) \cup Range(postcreate_manual[db])

register_postcreate(d) ==
    /\ d.store = "_postcreate_auto"
    /\ ~IsRegistered(d.func)
    /\ postcreate_auto' = postcreate_decorator(postcreate_auto, d.isList, d.raw_db, d.func)
    /\ UNCHANGED <<cfg, db_engines, created, postcreate_manual, persisted,
                   hookCalls, hist, lastCall, nCalls, bootRun, bindingVars, lookup, threads, naming>>

register_postcreate_manual(d) ==
    /\ d.store = "_postcreate_manual"
    /\ ~IsRegistered(d.func)
    /\ postcreate_manual' = postcreate_decorator(postcreate_manual, d.isList, d.raw_db, d.func)
    /\ UNCHANGED <<cfg, db_engines, created, postcreate_auto, persisted,
                   hookCalls, hist, lastCall, nCalls, bootRun, bindingVars, lookup, threads, naming>>

-----
(* _get_engine *)

\* Mutation of CacheLookup: the cache is never consulted.
CacheLookupAlwaysMiss(q) == <<>>

\* self._db_engines.get(qualified_db_name): <<>> for a miss, <<engine>> for a hit
CacheLookup(q) ==
    IF q \in DOMAIN db_engines THEN <<db_engines[q]>> ELSE <<>>

\* Mutation of StoreEngine: the new engine is never put into the cache.
StoreEngineNever(q, engine) == db_engines

\* if not PostgresConfig.PG_ANTI_PERSISTENT: self._db_engines[q] = engine
StoreEngine(q, engine) ==
    IF ~cfg.anti_persistent
    THEN [k \in DOMAIN db_engines \cup {q} |-> IF k = q THEN engine ELSE db_engines[k]]
    ELSE db_engines

\* What the environment decides during one call: the outcome of each bootstrap
\* attempt, whether create_default_psql_dependencies succeeds, which statement
\* (if any) fails and which manual hook (if any) raises.  Only the choices the
\* call gets to observe are enumerated.
AllOk == [i \in 1..PG_MAX_RETRY |-> "ok"]

\* The bootstrap scenarios a call may meet: every attempt meets the same
\* outcome, or the first attempt fails and the later ones succeed.
BootScenarios ==
    {[i \in 1..PG_MAX_RETRY |-> o] : o \in Outcomes}
    \cup {[i \in 1..PG_MAX_RETRY |-> IF i = 1 THEN o ELSE "ok"] :
              o \in {"transient", "login"}}

BootInputs(q) ==
    IF CacheLookup(q) # <<>> THEN {AllOk} ELSE BootScenarios

Reached(q, outs) == CacheLookup(q) = <<>> /\ ~ensure_engine_connection(outs).raised

DepsInputs(q, outs) == IF Reached(q, outs) THEN BOOLEAN ELSE {TRUE}

HookStatements(hooks) ==
    UNION {Range(HookResult(hooks[i]).items) : i \in 1..Len(hooks)}

StmtInputs(q, database, outs, depsOk) ==
    {None} \cup (IF Reached(q, outs) /\ depsOk
                 THEN HookStatements(postcreate_auto[database]) ELSE {})

ManualInputs(q, database, outs, depsOk, failStmt) ==
    {None} \cup (IF Reached(q, outs) /\ depsOk /\ failStmt = None
                 THEN Range(postcreate_manual[database]) ELSE {})

NoCall == [identity |-> None, outcome |-> "none", engine |-> <<>>,
           created |-> FALSE, probed |-> FALSE, hooksStarted |-> FALSE,
           autoFail |-> FALSE, manualFail |-> FALSE, autoDone |-> <<>>,
           applied |-> <<>>]

\* The body of _get_engine: the state it leaves and what the caller gets.
GetEngineResult(database, tenant_id, outs, depsOk, failStmt, manualFail) ==
    LET q == get_fully_qualified_db(database, tenant_id)
        hit == CacheLookup(q)
        boot == ensure_engine_connection(outs)
        engine == create_engine(q, created[q] + 1) @@ [probed |-> boot.probed]
        hooksStarted == ~boot.raised /\ depsOk
        post == run_postcreate(engine, database, failStmt, manualFail)
        raised == boot.raised \/ ~depsOk \/ post.raised
    IN IF hit # <<>>
       THEN [db_engines |-> db_engines, created |-> created,
             persisted |-> persisted, hookCalls |-> hookCalls,
             call |-> [NoCall EXCEPT !.identity = q, !.outcome = "returned",
                                     !.engine = hit]]
       ELSE [db_engines |-> IF boot.raised THEN db_engines ELSE StoreEngine(q, engine),
             created |-> [created EXCEPT ![q] = @ + 1],
             persisted |-> IF hooksStarted
                           THEN [persisted EXCEPT ![q] = @ \o post.applied]
                           ELSE persisted,
             hookCalls |-> IF hooksStarted
                           THEN [hookCalls EXCEPT ![q] = @ \o post.calls]
                           ELSE hookCalls,
             call |-> [identity |-> q,
                       outcome |-> IF raised THEN "raised" ELSE "returned",
                       engine |-> IF raised THEN <<>> ELSE <<engine>>,
                       created |-> TRUE,
                       probed |-> boot.probed,
                       hooksStarted |-> hooksStarted,
                       autoFail |-> hooksStarted /\ post.autoFail,
                       manualFail |-> hooksStarted /\ post.manualFail,
                       autoDone |-> IF hooksStarted THEN post.autoDone ELSE <<>>,
                       applied |-> IF hooksStarted THEN post.applied ELSE <<>>]]

\* One call of _get_engine (through get_engine_obj or get_session), from the
\* cache lookup to its return or to the exception it lets out.
get_engine(database, tenant_id) ==
    /\ nCalls < MaxCalls
    /\ nCalls' = nCalls + 1
    /\ \E outs \in BootInputs(get_fully_qualified_db(database, tenant_id)) :
       \E depsOk \in DepsInputs(get_fully_qualified_db(database, tenant_id), outs) :
       \E failStmt \in StmtInputs(get_fully_qualified_db(database, tenant_id),
                                  database, outs, depsOk) :
       \E manualFail \in ManualInputs(get_fully_qualified_db(database, tenant_id),
                                      database, outs, depsOk, failStmt) :
       LET q == get_fully_qualified_db(database, tenant_id)
           r == GetEngineResult(database, tenant_id, outs, depsOk, failStmt, manualFail)
       IN /\ db_engines' = r.db_engines
          /\ created' = r.created
          /\ persisted' = r.persisted
          /\ hookCalls' = r.hookCalls
          /\ lastCall' = r.call
          /\ hist' = [hist EXCEPT ![q] =
                [calls |-> @.calls + 1,
                 auto |-> IF @.calls = 0 THEN postcreate_auto[database] ELSE @.auto,
                 manual |-> IF @.calls = 0 THEN postcreate_manual[database]
                            ELSE @.manual,
                 firstReturned |-> IF @.calls = 0 THEN r.call.outcome = "returned"
                                   ELSE @.firstReturned,
                 returned |-> IF r.call.outcome = "returned"
                              THEN Append(@.returned, r.call.engine[1].serial)
                              ELSE @.returned]]
    /\ UNCHANGED <<cfg, postcreate_auto, postcreate_manual, bootRun, bindingVars, lookup, threads, naming>>

------------------------------------------------------------------------
\* Per identity: the number of calls, the hooks registered for its raw
\* database when the first call was made, whether that call returned, and the
\* serial of the engine each returning call handed out.
NotCalled == [calls |-> 0, auto |-> <<>>, manual |-> <<>>,
              firstReturned |-> FALSE, returned |-> <<>>]

-----------------------------------------------------------------------------
(* DeclarativeUtils: values *)

BindingDbs == {"billing"}
BindingTenants == {"acme", "zeta"}
BindingSchemas == {"public"}
Tables == {"x", "y"}

\* f"{raw_database}_{tenant_id}_{schema}"
CacheKey(raw_database, tenant_id, schema_name) ==
    raw_database \o "_" \o tenant_id \o "_" \o schema_name

\* f"{self.tenant_id}.async_{self.raw_database}_{self.schema}"
ModulePath(raw_database, tenant_id, schema_name) ==
    tenant_id \o ".async_" \o raw_database \o "_" \o schema_name

Triples == BindingDbs \X BindingTenants \X BindingSchemas
Keys == {CacheKey(t[1], t[2], t[3]) : t \in Triples}
Paths == {ModulePath(t[1], t[2], t[3]) : t \in Triples}

\* self.declarative_module: None, the import path (a str) or a module object
NoneHandle == [tag |-> "None", path |-> "", mod |-> 0]
StrHandle(path) == [tag |-> "str", path |-> path, mod |-> 0]
ModuleHandle(id) == [tag |-> "module", path |-> "", mod |-> id]

\* DeclarativeUtils.__init__
NewUtils(raw_database, tenant_id, schema_name, raw_db) ==
    [raw_database |-> raw_database, tenant_id |-> tenant_id,
     schema |-> schema_name, raw_db |-> raw_db,
     declarative_module |-> NoneHandle]

PathOf(u) == ModulePath(u.raw_database, u.tenant_id, u.schema)

Max(S) == CHOOSE m \in S : \A x \in S : x <= m

NoFile == [exists |-> FALSE, tables |-> {}, stamp |-> 0]

\* What one attempt to generate the artifact meets, and what executing an
\* artifact meets apart from the conflicts the model tracks.
GenOutcomes == {"ok", "session_error", "reflect_error", "generate_error"}
LoadOutcomes == {"ok", "missing", "other"}

\* The state one operation works on: the files, the import system, the base
\* registrations and the handle of the DeclarativeUtils object, with a record
\* of the steps taken.
World(u) ==
    [disk |-> disk, sys_modules |-> sys_modules, modules |-> modules,
     base_classes |-> base_classes, handle |-> u.declarative_module,
     steps |-> <<>>, sessions |-> 0, wrote |-> {}, exited |-> FALSE,
     raised |-> FALSE, tasks |-> tasks, status |-> 0, genFailures |-> <<>>]

-----------------------------------------------------------------------------
(* _prepare_declarative_file *)

PathResult(u) == [ok |-> TRUE, path |-> PathOf(u)]
FalseResult == [ok |-> FALSE, path |-> ""]

\* Lines 56-72 when the codegen import succeeds: get_session, reflect, then
\* open(declarative_file, "w"), which empties the file, and write what the
\* generator returns.  genFailures keeps, for each attempt that failed, the
\* artifact before and after it.
Generate(w, u, gen) ==
    LET file == PathOf(u)
        acquired == [w EXCEPT !.sessions = @ + 1]
        stamp == 1 + Max({w.disk[p].stamp : p \in Paths} \cup w.wrote)
        truncated == [exists |-> TRUE, tables |-> {}, stamp |-> stamp]
        unchanged == [before |-> w.disk[file], after |-> w.disk[file]]
    IN CASE gen = "session_error" ->
                [w |-> [w EXCEPT !.genFailures = Append(@, unchanged)],
                 ret |-> FalseResult]
         [] gen = "reflect_error" ->
                [w |-> [acquired EXCEPT !.genFailures = Append(@, unchanged)],
                 ret |-> FalseResult]
         [] gen = "generate_error" ->
                [w |-> [acquired EXCEPT
                          !.disk[file] = truncated,
                          !.wrote = @ \cup {stamp},
                          !.genFailures = Append(@, [before |-> w.disk[file],
                                                     after |-> truncated])],
                 ret |-> FalseResult]
         [] OTHER ->
                [w |-> [acquired EXCEPT
                          !.disk[file] = [exists |-> TRUE,
                                          tables |-> schema[u.tenant_id],
                                          stamp |-> stamp],
                          !.wrote = @ \cup {stamp}],
                 ret |-> PathResult(u)]

\* Mutation of DeferApplies: an artifact already present is never reused.
DeferNever(w, u, refresh) == FALSE

\* declarative_file.exists() and ModuleConfig.DEFER_GEN_REFRESH and not refresh
DeferApplies(w, u, refresh) ==
    w.disk[PathOf(u)].exists /\ modCfg.defer /\ ~refresh

prepare_declarative_file(w, u, refresh, gen) ==
    IF DeferApplies(w, u, refresh) THEN [w |-> w, ret |-> PathResult(u)]
    ELSE IF ~modCfg.codegen THEN [w |-> w, ret |-> PathResult(u)]
    ELSE Generate(w, u, gen)

-----------------------------------------------------------------------------
(* importlib.import_module / importlib.reload *)

BaseKey(u) == <<u.raw_database, u.schema>>

\* Executing the artifact at path: the error it ends with, "" for none.
ExecError(w, u, path, load) ==
    IF ~w.disk[path].exists \/ load = "missing" THEN "No module named"
    ELSE IF load = "other" THEN "other"
    ELSE IF w.disk[path].tables \cap w.base_classes[BaseKey(u)] # {}
         THEN "is already defined"
    ELSE ""

\* import_module(path): the module sys.modules holds, or a new module object
\* made by executing the artifact; a failed import leaves no module behind.
import_module(w, u, path, load) ==
    IF path \in DOMAIN w.sys_modules
    THEN [w |-> w, err |-> "", mod |-> w.sys_modules[path]]
    ELSE LET err == ExecError(w, u, path, load)
             id == Len(w.modules) + 1
         IN IF err # "" THEN [w |-> w, err |-> err, mod |-> 0]
            ELSE [w |-> [w EXCEPT
                           !.modules = Append(@, [path |-> path,
                                                  attrs |-> w.disk[path].tables,
                                                  stamp |-> w.disk[path].stamp]),
                           !.sys_modules = [k \in DOMAIN @ \cup {path} |->
                                              IF k = path THEN id ELSE @[k]],
                           !.base_classes[BaseKey(u)] = @ \cup w.disk[path].tables],
                  err |-> "", mod |-> id]

\* importlib.reload(module): the artifact is executed again in the module's
\* own namespace, which keeps the names the new source does not define.
reload(w, u, id, load) ==
    LET path == w.modules[id].path
        err == ExecError(w, u, path, load)
    IN IF err # "" THEN [w |-> w, err |-> err, mod |-> 0]
       ELSE [w |-> [w EXCEPT
                      !.modules[id] = [path |-> path,
                                       attrs |-> @.attrs \cup w.disk[path].tables,
                                       stamp |-> w.disk[path].stamp],
                      !.base_classes[BaseKey(u)] = @ \cup w.disk[path].tables],
             err |-> "", mod |-> id]

-----------------------------------------------------------------------------
(* refresh_module *)

\* base_class_generator.remove_base_class(self.raw_database, self.schema)
remove_base_class(w, u) ==
    [w EXCEPT !.base_classes[BaseKey(u)] = {},
              !.steps = Append(@, "remove_base_class")]

\* The whole of refresh_module; raised tells that an exception left it.  The
\* result of _prepare_declarative_file is not looked at.
refresh_module(w0, u, non_refresh, gen, load) ==
    LET w1 == remove_base_class(w0, u)
        prep == prepare_declarative_file(w1, u, TRUE, gen)
        w2 == [prep.w EXCEPT !.steps = Append(@, "prepare_declarative_file")]
        w3 == [w2 EXCEPT !.steps = Append(@, IF non_refresh THEN "import_module"
                                                            ELSE "reload")]
    IN IF non_refresh
       THEN IF w3.handle.tag # "str" THEN [w3 EXCEPT !.raised = TRUE]
            ELSE LET imp == import_module(w3, u, w3.handle.path, load)
                 IN IF imp.err # "" THEN [imp.w EXCEPT !.raised = TRUE]
                    ELSE [imp.w EXCEPT !.handle = ModuleHandle(imp.mod)]
       ELSE IF w3.handle.tag # "module" THEN [w3 EXCEPT !.raised = TRUE]
            ELSE LET rel == reload(w3, u, w3.handle.mod, load)
                 IN IF rel.err # "" THEN [rel.w EXCEPT !.raised = TRUE]
                    ELSE [rel.w EXCEPT !.handle = ModuleHandle(rel.mod)]

-----------------------------------------------------------------------------
(* _get_declarative_module *)

\* The tasks of the running loop other than the current one.
OtherTasks == {"job1", "job2"}

\* task.cancel() for every other task that has not finished
cancel_tasks(w) ==
    [w EXCEPT !.tasks = [t \in OtherTasks |->
                            IF @[t] = "running" THEN "cancelling" ELSE @[t]],
              !.steps = Append(@, "cancel")]

\* await asyncio.gather(*tasks, return_exceptions=True): every cancelled task
\* has ended when the await returns.
gather(w) ==
    [w EXCEPT !.tasks = [t \in OtherTasks |->
                            IF @[t] = "cancelling" THEN "cancelled" ELSE @[t]],
              !.steps = Append(@, "gather")]

\* sys.exit(1): SystemExit is no Exception, no handler of the call stops it.
sys_exit(w, status) ==
    [w EXCEPT !.exited = TRUE, !.status = status, !.steps = Append(@, "sys.exit")]

\* Mutation of emergency_exit: the process exits at once.
emergency_exit_at_once(w) == sys_exit(w, 1)

\* The "No module named" branch.
emergency_exit(w) == sys_exit(gather(cancel_tasks(w)), 1)

\* The world after the call and what it returns: "module" for the proxy of a
\* module, "None" otherwise.  On the "No module named" branch the other tasks
\* are cancelled and sys.exit(1) ends the process.
get_declarative_module(w0, u, gen1, load1, gen2, load2) ==
    LET prep == prepare_declarative_file(w0, u, FALSE, gen1)
        w1 == [prep.w EXCEPT !.handle = StrHandle(prep.ret.path)]
        imp == import_module(w1, u, prep.ret.path, load1)
        rec == refresh_module([w1 EXCEPT !.steps = Append(@, "conflict")],
                              u, TRUE, gen2, load2)
    IN IF ~prep.ret.ok THEN [w |-> prep.w, ret |-> "None"]
       ELSE IF imp.err = "" THEN
            [w |-> [imp.w EXCEPT !.handle = ModuleHandle(imp.mod)], ret |-> "module"]
       ELSE IF imp.err = "No module named" THEN
            [w |-> emergency_exit(w1), ret |-> "None"]
       ELSE IF imp.err = "is already defined" THEN
            IF rec.raised THEN [w |-> [rec EXCEPT !.raised = FALSE], ret |-> "None"]
            ELSE [w |-> rec, ret |-> "module"]
       ELSE [w |-> w1, ret |-> "None"]

\* The error the first import of a call ends with, "" when it is not reached
\* or succeeds; the outcomes of the recovery are drawn only after a conflict.
FirstError(w0, u, gen1, load1) ==
    LET prep == prepare_declarative_file(w0, u, FALSE, gen1)
    IN IF ~prep.ret.ok THEN ""
       ELSE import_module(prep.w, u, prep.ret.path, load1).err

RecoveryInputs(w0, u, gen1, load1) ==
    IF FirstError(w0, u, gen1, load1) = "is already defined"
    THEN GenOutcomes \X LoadOutcomes
    ELSE {<<"ok", "ok">>}

\* _pre_check
pre_check(w, u, gen1, load1, gen2, load2) ==
    IF w.handle.tag = "None" \/ w.handle.tag = "str"
    THEN get_declarative_module(w, u, gen1, load1, gen2, load2).w
    ELSE w

-----------------------------------------------------------------------------
(* _DeclarativeUtilsFactory.get_declarative_utils and the operations on the  *)
(* object it returns                                                        *)

NoOp == [kind |-> "none", key |-> "", hit |-> FALSE, non_refresh |-> FALSE,
         fileBefore |-> FALSE, steps |-> <<>>, sessions |-> 0, wrote |-> {},
         raised |-> FALSE, exited |-> FALSE, returned |-> FALSE, status |-> 0,
         genFailures |-> <<>>]

\* declarative_utils.get(key): <<>> for a miss
TableGet(key) ==
    IF key \in DOMAIN declarative_utils THEN <<declarative_utils[key]>> ELSE <<>>

\* The world a call of get_declarative_utils leaves, hit or miss.
GetBindingWorld(raw_database, tenant_id, schema_name, gen1, load1, gen2, load2) ==
    LET key == CacheKey(raw_database, tenant_id, schema_name)
        found == TableGet(key)
    IN IF found # <<>>
       THEN pre_check(World(found[1]), found[1], gen1, load1, gen2, load2)
       ELSE LET u == NewUtils(raw_database, tenant_id, schema_name, FALSE)
            IN get_declarative_module(World(u), u, gen1, load1, gen2, load2).w

\* Every world a call may leave, over what generation and loading can meet.
GetBindingWorlds(raw_database, tenant_id, schema_name) ==
    LET key == CacheKey(raw_database, tenant_id, schema_name)
        found == TableGet(key)
        u == IF found # <<>> THEN found[1]
             ELSE NewUtils(raw_database, tenant_id, schema_name, FALSE)
    IN UNION {{GetBindingWorld(raw_database, tenant_id, schema_name,
                               g1, l1, x[1], x[2]) :
                  x \in RecoveryInputs(World(u), u, g1, l1)} :
              g1 \in GenOutcomes, l1 \in LoadOutcomes}

Commit(w) ==
    /\ disk' = w.disk
    /\ sys_modules' = w.sys_modules
    /\ modules' = w.modules
    /\ base_classes' = w.base_classes
    /\ exited' = w.exited
    /\ tasks' = w.tasks

get_declarative_utils(raw_database, tenant_id, schema_name) ==
    /\ ~exited
    /\ nOps < MaxOps
    /\ nOps' = nOps + 1
    /\ \E w \in GetBindingWorlds(raw_database, tenant_id, schema_name) :
       LET key == CacheKey(raw_database, tenant_id, schema_name)
           found == TableGet(key)
           u == IF found # <<>> THEN found[1]
                ELSE NewUtils(raw_database, tenant_id, schema_name, FALSE)
       IN /\ Commit(w)
          /\ declarative_utils' =
                IF w.exited THEN declarative_utils
                ELSE [k \in DOMAIN declarative_utils \cup {key} |->
                        IF k = key THEN [u EXCEPT !.declarative_module = w.handle]
                        ELSE declarative_utils[k]]
          /\ lastOp' = [kind |-> "get_binding", key |-> key, hit |-> found # <<>>,
                        non_refresh |-> FALSE,
                        fileBefore |-> disk[PathOf(u)].exists,
                        steps |-> w.steps, sessions |-> w.sessions,
                        wrote |-> w.wrote, raised |-> FALSE,
                        exited |-> w.exited, returned |-> ~w.exited,
                        status |-> w.status, genFailures |-> w.genFailures]
    /\ UNCHANGED <<cfg, engineVars, bootRun, modCfg, schema, lookup, threads, naming>>

\* refresh_module called on the object the table holds for key
RefreshModule(key, non_refresh) ==
    /\ ~exited
    /\ nOps < MaxOps
    /\ nOps' = nOps + 1
    /\ key \in DOMAIN declarative_utils
    /\ \E w \in {refresh_module(World(declarative_utils[key]), declarative_utils[key],
                                non_refresh, g, l) :
                    g \in GenOutcomes, l \in LoadOutcomes} :
          /\ Commit(w)
          /\ declarative_utils' =
                [declarative_utils EXCEPT ![key].declarative_module = w.handle]
          /\ lastOp' = [kind |-> "refresh", key |-> key, hit |-> TRUE,
                        non_refresh |-> non_refresh,
                        fileBefore |-> disk[PathOf(declarative_utils[key])].exists,
                        steps |-> w.steps, sessions |-> w.sessions,
                        wrote |-> w.wrote, raised |-> w.raised,
                        exited |-> FALSE, returned |-> ~w.raised,
                        status |-> w.status, genFailures |-> w.genFailures]
    /\ UNCHANGED <<cfg, engineVars, bootRun, modCfg, schema, lookup, threads, naming>>

\* The schema of a tenant's database changes on the server.
SchemaValues == {{"x"}, {"y"}, {"x", "y"}}

SchemaChanges ==
    Cardinality({t \in BindingTenants : schema[t] # {"x"}})

AlterSchema(tenant_id, tables) ==
    /\ ~exited
    /\ schema[tenant_id] = {"x"}
    /\ tables # {"x"}
    /\ SchemaChanges < MaxSchemaChanges
    /\ schema' = [schema EXCEPT ![tenant_id] = tables]
    /\ lastOp' = [NoOp EXCEPT !.kind = "alter_schema"]
    /\ UNCHANGED <<cfg, engineVars, bootRun, modCfg, disk, sys_modules, modules,
                   base_classes, declarative_utils, exited, tasks, nOps, lookup, threads, naming>>

-----------------------------------------------------------------------------
(* get_declarative_class *)

\* Names are sequences of characters.
Chars == {"a", "_", "1"}
Names == UNION {[1..n -> Chars] : n \in 1..MaxNameLen}

IsLowerChar(c) == c \in {"a", "t"}
IsUpperChar(c) == c \in {"A", "T"}
IsDigitChar(c) == c \in {"1"}
IsCased(c) == IsLowerChar(c) \/ IsUpperChar(c)
IsAlnum(c) == IsCased(c) \/ IsDigitChar(c)

UpperChar(c) == CASE c = "a" -> "A" [] c = "t" -> "T" [] OTHER -> c
LowerChar(c) == CASE c = "A" -> "a" [] c = "T" -> "t" [] OTHER -> c

\* str.title(): a cased character is upper-cased after an uncased one (or at
\* the start) and lower-cased after a cased one.
Title(s) ==
    [i \in 1..Len(s) |->
        IF i = 1 \/ ~IsCased(s[i - 1]) THEN UpperChar(s[i]) ELSE LowerChar(s[i])]

\* re.sub('([0-9A-Za-z])_(?=[0-9A-Z])', group 1, s) from position i on
RECURSIVE SubUnderscore(_, _)
SubUnderscore(s, i) ==
    IF i > Len(s) THEN <<>>
    ELSE IF /\ s[i] = "_"
            /\ i > 1 /\ IsAlnum(s[i - 1])
            /\ i < Len(s) /\ (IsDigitChar(s[i + 1]) \/ IsUpperChar(s[i + 1]))
         THEN SubUnderscore(s, i + 1)
         ELSE <<s[i]>> \o SubUnderscore(s, i + 1)

\* pydantic.alias_generators.to_pascal
to_pascal(snake) == SubUnderscore(Title(snake), 1)

\* f"t_{table_name}"
Prefixed(table_name) == <<"t", "_">> \o table_name

\* table_name.replace("_", "")
Stripped(table_name) == SelectSeq(table_name, LAMBDA c : c # "_")

\* The names get_declarative_class may ask the module for.
Candidates(table_name) ==
    {to_pascal(table_name), Prefixed(table_name), table_name, Stripped(table_name)}

\* Mutation of get_declarative_class: the bare table name is tried before the
\* t_ prefix.
get_declarative_class_swapped(module, table_name) ==
    IF ~module.loaded THEN <<>>
    ELSE IF to_pascal(table_name) \in module.attrs THEN <<to_pascal(table_name)>>
    ELSE IF table_name \in module.attrs THEN <<table_name>>
    ELSE IF Prefixed(table_name) \in module.attrs THEN <<Prefixed(table_name)>>
    ELSE IF Stripped(table_name) \in module.attrs THEN <<Stripped(table_name)>>
    ELSE <<>>

\* The chain of getattr calls, each tried when the one before raised
\* AttributeError; <<>> stands for None, <<name>> for the attribute found.
get_declarative_class(module, table_name) ==
    IF ~module.loaded THEN <<>>
    ELSE IF to_pascal(table_name) \in module.attrs THEN <<to_pascal(table_name)>>
    ELSE IF Prefixed(table_name) \in module.attrs THEN <<Prefixed(table_name)>>
    ELSE IF table_name \in module.attrs THEN <<table_name>>
    ELSE IF Stripped(table_name) \in module.attrs THEN <<Stripped(table_name)>>
    ELSE <<>>

GetDeclarativeClass ==
    /\ ~lookup.done
    /\ lookup' = [lookup EXCEPT !.done = TRUE,
                      !.result = get_declarative_class(lookup.module, lookup.table_name)]
    /\ UNCHANGED <<cfg, engineVars, bootRun, bindingVars, threads, naming>>

-----------------------------------------------------------------------------
(* Initial states *)

NoBoot == [outs |-> AllOk, done |-> FALSE, log |-> <<>>,
           probed |-> FALSE, raised |-> FALSE]

NoLookup == [table_name |-> <<"a">>, module |-> [loaded |-> FALSE, attrs |-> {}],
             done |-> FALSE, result |-> <<>>]

InitEngine ==
    /\ db_engines = <<>>
    /\ created = [q \in Identities |-> 0]
    /\ postcreate_auto = [db \in RawDbs |-> <<>>]
    /\ postcreate_manual = [db \in RawDbs |-> <<>>]
    /\ persisted = [q \in Identities |-> <<>>]
    /\ hookCalls = [q \in Identities |-> <<>>]
    /\ hist = [q \in Identities |-> NotCalled]
    /\ lastCall = NoCall
    /\ nCalls = 0

\* An artifact a former run of the process left behind.
OldFile == [exists |-> TRUE, tables |-> {"x"}, stamp |-> 0]

InitBindingState ==
    /\ schema = [t \in BindingTenants |-> {"x"}]
    /\ sys_modules = <<>>
    /\ modules = <<>>
    /\ base_classes = [k \in BindingDbs \X BindingSchemas |-> {}]
    /\ declarative_utils = <<>>
    /\ exited = FALSE
    /\ tasks = [t \in OtherTasks |-> "running"]
    /\ lastOp = NoOp
    /\ nOps = 0

IdleCfg == cfg = [pooling |-> TRUE, anti_persistent |-> FALSE]

Threads == {"t1", "t2", "t3"}

NoThread == [pc |-> "idle", engine |-> <<>>, got |-> <<>>]

NoNaming == [done |-> FALSE]

IdleRest ==
    /\ threads = [t \in Threads |-> NoThread]
    /\ naming = NoNaming

IdleBinding ==
    /\ modCfg = [defer |-> FALSE, codegen |-> TRUE]
    /\ disk = [p \in Paths |-> NoFile]
    /\ InitBindingState

-----------------------------------------------------------------------------
(* The session manager as a state machine *)

Init ==
    /\ cfg \in [pooling : BOOLEAN, anti_persistent : BOOLEAN]
    /\ InitEngine
    /\ bootRun = NoBoot
    /\ IdleBinding
    /\ lookup = NoLookup
    /\ IdleRest

Next ==
    \/ \E d \in Decorated : register_postcreate(d)
    \/ \E d \in Decorated : register_postcreate_manual(d)
    \/ \E database \in CallDbs, tenant_id \in TenantArgs :
           get_engine(database, tenant_id)

Spec == Init /\ [][Next]_vars

-----------------------------------------------------------------------------
(* The bootstrapper on its own: one run of _ensure_engine_connection for   *)
(* every way the attempts can turn out.                                     *)

EnsureEngineConnection ==
    /\ ~bootRun.done
    /\ bootRun' = [outs |-> bootRun.outs, done |-> TRUE]
                  @@ ensure_engine_connection(bootRun.outs)
    /\ UNCHANGED <<cfg, engineVars, bindingVars, lookup, threads, naming>>

InitBoot ==
    /\ IdleCfg
    /\ InitEngine
    /\ bootRun \in {[NoBoot EXCEPT !.outs = o] : o \in [1..PG_MAX_RETRY -> Outcomes]}
    /\ IdleBinding
    /\ lookup = NoLookup
    /\ IdleRest

NextBoot == EnsureEngineConnection

SpecBoot == InitBoot /\ [][NextBoot]_vars

-----------------------------------------------------------------------------
(* The declarative-module cache as a state machine *)

InitBinding ==
    /\ IdleCfg
    /\ InitEngine
    /\ bootRun = NoBoot
    /\ modCfg \in [defer : BOOLEAN, codegen : BOOLEAN]
    /\ disk \in [Paths -> {NoFile, OldFile}]
    /\ InitBindingState
    /\ lookup = NoLookup
    /\ IdleRest

NextBinding ==
    \/ \E t \in Triples : get_declarative_utils(t[1], t[2], t[3])
    \/ \E key \in Keys, non_refresh \in BOOLEAN : RefreshModule(key, non_refresh)
    \/ \E tenant_id \in BindingTenants, tables \in SchemaValues :
           AlterSchema(tenant_id, tables)

SpecBinding == InitBinding /\ [][NextBinding]_vars

-----------------------------------------------------------------------------
(* get_declarative_class on its own: one lookup for every table name and    *)
(* every module exposing some of the names the lookup may ask for.          *)

InitLookup ==
    /\ IdleCfg
    /\ InitEngine
    /\ bootRun = NoBoot
    /\ IdleBinding
    /\ \E n \in Names, loaded \in BOOLEAN :
       \E attrs \in SUBSET Candidates(n) :
          /\ loaded \/ attrs = {}
          /\ lookup = [table_name |-> n,
                       module |-> [loaded |-> loaded, attrs |-> attrs],
                       done |-> FALSE, result |-> <<>>]
    /\ IdleRest

NextLookup == GetDeclarativeClass

SpecLookup == InitLookup /\ [][NextLookup]_vars

-----------------------------------------------------------------------------
(* _get_engine called from several threads for one identity: nothing in the *)
(* method holds a lock, so the threads interleave between its statements.   *)

ThreadDb == "billing"
ThreadIdentity == get_fully_qualified_db(ThreadDb, None)

\* engine := self._db_engines.get(qualified_db_name)
t_lookup(t) ==
    /\ threads[t].pc = "start"
    /\ threads' = [threads EXCEPT ![t] =
          IF CacheLookup(ThreadIdentity) # <<>>
          THEN [pc |-> "done", engine |-> <<>>, got |-> CacheLookup(ThreadIdentity)]
          ELSE [@ EXCEPT !.pc = "miss"]]
    /\ UNCHANGED <<cfg, engineVars, bootRun, bindingVars, lookup, naming>>

\* create_engine(...) and _ensure_engine_connection(engine), the probe succeeding
t_create(t) ==
    /\ threads[t].pc = "miss"
    /\ created' = [created EXCEPT ![ThreadIdentity] = @ + 1]
    /\ threads' = [threads EXCEPT ![t] =
          [@ EXCEPT !.pc = "created",
                    !.engine = <<create_engine(ThreadIdentity, created[ThreadIdentity] + 1)
                                 @@ [probed |-> TRUE]>>]]
    /\ UNCHANGED <<cfg, db_engines, postcreate_auto, postcreate_manual, persisted,
                   hookCalls, hist, lastCall, nCalls, bootRun, bindingVars, lookup,
                   naming>>

\* if not PG_ANTI_PERSISTENT: self._db_engines[qualified_db_name] = engine
t_store(t) ==
    /\ threads[t].pc = "created"
    /\ db_engines' = StoreEngine(ThreadIdentity, threads[t].engine[1])
    /\ threads' = [threads EXCEPT ![t].pc = "stored"]
    /\ UNCHANGED <<cfg, created, postcreate_auto, postcreate_manual, persisted,
                   hookCalls, hist, lastCall, nCalls, bootRun, bindingVars, lookup,
                   naming>>

\* create_default_psql_dependencies, run_postcreate and return engine, nothing
\* failing
t_postcreate(t) ==
    /\ threads[t].pc = "stored"
    /\ LET post == run_postcreate(threads[t].engine[1], ThreadDb, None, None)
       IN /\ persisted' = [persisted EXCEPT ![ThreadIdentity] = @ \o post.applied]
          /\ hookCalls' = [hookCalls EXCEPT ![ThreadIdentity] = @ \o post.calls]
    /\ threads' = [threads EXCEPT ![t] =
          [@ EXCEPT !.pc = "done", !.got = threads[t].engine]]
    /\ UNCHANGED <<cfg, db_engines, created, postcreate_auto, postcreate_manual,
                   hist, lastCall, nCalls, bootRun, bindingVars, lookup, naming>>

InitThreads ==
    /\ cfg \in [pooling : BOOLEAN, anti_persistent : BOOLEAN]
    /\ db_engines = <<>>
    /\ created = [q \in Identities |-> 0]
    /\ postcreate_auto = [db \in RawDbs |-> IF db = ThreadDb THEN <<"a1", "a2">> ELSE <<>>]
    /\ postcreate_manual = [db \in RawDbs |-> IF db = ThreadDb THEN <<"m1">> ELSE <<>>]
    /\ persisted = [q \in Identities |-> <<>>]
    /\ hookCalls = [q \in Identities |-> <<>>]
    /\ hist = [q \in Identities |-> NotCalled]
    /\ lastCall = NoCall
    /\ nCalls = 0
    /\ bootRun = NoBoot
    /\ IdleBinding
    /\ lookup = NoLookup
    /\ threads = [t \in Threads |-> [NoThread EXCEPT !.pc = "start"]]
    /\ naming = NoNaming

NextThreads ==
    \E t \in Threads : t_lookup(t) \/ t_create(t) \/ t_store(t) \/ t_postcreate(t)

SpecThreads == InitThreads /\ [][NextThreads]_vars

-----------------------------------------------------------------------------
(* The identity, the table key and the module path as strings of characters: *)
(* one formatting run for every choice of the names.                         *)

NameChars == {"a", "_"}

\* Names of 1 to MaxPartLen characters, and those that start with a letter.
Parts == UNION {[1..n -> NameChars] : n \in 1..MaxPartLen}
Identifiers == {n \in Parts : n[1] = "a"}

\* tenant_id: None or a string
Absent == [none |-> TRUE, chars |-> <<>>]
Tenant(chars) == [none |-> FALSE, chars |-> chars]
TenantValues == {Absent} \cup {Tenant(n) : n \in Parts}

Delimiter == <<"_", "_">>

ContainsDelimiter(chars) ==
    \E i \in 1..(Len(chars) - 1) : SubSeq(chars, i, i + 1) = Delimiter

\* f"{tenant_id}__{database}" if tenant_id else database
QualifiedChars(database, tenant_id) ==
    IF ~tenant_id.none /\ tenant_id.chars # <<>>
    THEN tenant_id.chars \o Delimiter \o database
    ELSE database

\* f"{raw_database}_{tenant_id}_{schema}"
KeyChars(raw_database, tenant_id, schema_name) ==
    raw_database \o <<"_">> \o tenant_id \o <<"_">> \o schema_name

\* f"{self.tenant_id}.async_{self.raw_database}_{self.schema}"
PathChars(raw_database, tenant_id, schema_name) ==
    tenant_id \o <<".", "a", "s", "y", "n", "c", "_">> \o raw_database
              \o <<"_">> \o schema_name

IdentityInputs == Parts \X TenantValues
BindingInputs == Identifiers \X Identifiers \X Identifiers

FormatNames ==
    /\ ~naming.done
    /\ naming' =
          IF naming.kind = "identity"
          THEN [naming EXCEPT !.done = TRUE,
                   !.identity = QualifiedChars(naming.args[1], naming.args[2])]
          ELSE [naming EXCEPT !.done = TRUE,
                   !.key = KeyChars(naming.args[1], naming.args[2], naming.args[3]),
                   !.path = PathChars(naming.args[1], naming.args[2], naming.args[3])]
    /\ UNCHANGED <<cfg, engineVars, bootRun, bindingVars, lookup, threads>>

InitNaming ==
    /\ IdleCfg
    /\ InitEngine
    /\ bootRun = NoBoot
    /\ IdleBinding
    /\ lookup = NoLookup
    /\ threads = [t \in Threads |-> NoThread]
    /\ naming \in {[kind |-> "identity", args |-> a, done |-> FALSE,
                    identity |-> <<>>, key |-> <<>>, path |-> <<>>] :
                       a \in IdentityInputs}
                  \cup {[kind |-> "binding", args |-> a, done |-> FALSE,
                         identity |-> <<>>, key |-> <<>>, path |-> <<>>] :
                            a \in BindingInputs}

NextNaming == FormatNames

SpecNaming == InitNaming /\ [][NextNaming]_vars

-----
(* Properties of the engine cache and its hooks *)

SnapshotHooks(q) == Range(hist[q].auto) \cup Range(hist[q].manual)

AllReturned(q) == hist[q].calls > 0 /\ Len(hist[q].returned) = hist[q].calls

\* C1 as stated: for every identity whose get_engine calls all returned, each
\* hook registered for its raw database before the first call has executed
\* exactly once for that identity, whatever the configuration.
HookOnceAnyConfig ==
    \A q \in Identities : AllReturned(q) =>
        \A h \in SnapshotHooks(q) : Count(h, hookCalls[q]) = 1

\* C1 amended: with the engine cache in use (anti-persistent mode off) each
\* hook registered before an identity's first call executes at most once for
\* that identity, and exactly once when that first call returned; each identity
\* of the same raw database gets its own run.  In anti-persistent mode the
\* hooks execute once per call, for as long as the calls return.
HookOncePerIdentity ==
    \A q \in Identities : \A h \in SnapshotHooks(q) :
        /\ ~cfg.anti_persistent =>
              /\ Count(h, hookCalls[q]) <= 1
              /\ hist[q].firstReturned => Count(h, hookCalls[q]) = 1
        /\ cfg.anti_persistent /\ AllReturned(q) =>
              Count(h, hookCalls[q]) = hist[q].calls

\* A second call for an identity was served from the cache after the hooks of
\* its raw database ran on the first call.
HookOnceWitness ==
    /\ ~cfg.anti_persistent
    /\ lastCall.outcome = "returned" /\ ~lastCall.created
    /\ hist[lastCall.identity].calls = 2
    /\ hist[lastCall.identity].auto # <<>>
    /\ \A h \in SnapshotHooks(lastCall.identity) :
           Count(h, hookCalls[lastCall.identity]) = 1

\* C2: with caching enabled all returning calls for an identity hand out the
\* same engine, the last one created for it (no engine is created once a call
\* has returned); in anti-persistent mode every call creates an engine, each
\* returned engine differs from all returned before and the cache stays empty.
IdempotentEngineCreation ==
    /\ ~cfg.anti_persistent =>
          \A q \in Identities : hist[q].returned # <<>> =>
              Range(hist[q].returned) = {created[q]}
    /\ cfg.anti_persistent =>
          /\ db_engines = <<>>
          /\ \A q \in Identities :
                /\ created[q] = hist[q].calls
                /\ Cardinality(Range(hist[q].returned)) = Len(hist[q].returned)

\* Two calls for one identity both returned, with caching enabled.
IdempotentWitness ==
    /\ ~cfg.anti_persistent
    /\ \E q \in Identities : Len(hist[q].returned) = 2 /\ created[q] = 1

\* C3 as stated: when a statement of an auto hook fails, nothing the auto hooks
\* of that run executed is persisted.
AtomicAutoHooks ==
    lastCall.autoFail => lastCall.applied = <<>>

\* C5 as stated: a bootstrap that never saw the liveness probe succeed makes
\* get_engine raise, cache nothing and run no hooks; every cached engine was
\* probed successfully when it was created.
BootFailureIsFatal ==
    /\ lastCall.created /\ ~lastCall.probed =>
          /\ lastCall.outcome = "raised"
          /\ lastCall.identity \notin DOMAIN db_engines
          /\ ~lastCall.hooksStarted
    /\ \A q \in DOMAIN db_engines : db_engines[q].probed

-----------------------------------------------------------------------------
(* Properties of the bootstrapper *)

\* C4 as stated: an attempt that fails with the permanent login failure is the
\* last attempt of the run.
LoginFailureStopsRetry ==
    bootRun.done => \A i \in 1..Len(bootRun.log) : bootRun.log[i] = "login" => i = Len(bootRun.log)

\* C16: a run of the bootstrapper makes at most PG_MAX_RETRY attempts, none
\* after the first attempt whose probe succeeded, and after a transient
\* failure it makes the next attempt exactly when fewer than PG_MAX_RETRY
\* attempts have been made.
BootstrapBounded ==
    bootRun.done =>
        /\ Len(bootRun.log) <= PG_MAX_RETRY
        /\ \A i \in 1..Len(bootRun.log) :
              /\ bootRun.log[i] = bootRun.outs[i]
              /\ bootRun.log[i] = "ok" => i = Len(bootRun.log)
              /\ bootRun.log[i] = "transient" =>
                    (Len(bootRun.log) > i <=> i < PG_MAX_RETRY)
        /\ bootRun.probed <=> (bootRun.log # <<>> /\ bootRun.log[Len(bootRun.log)] = "ok")

\* The second attempt succeeded after a transient failure and no third one was
\* made, although it would have failed.
BootstrapBoundedWitness ==
    /\ bootRun.done /\ bootRun.probed
    /\ bootRun.log = <<"transient", "ok">>
    /\ bootRun.outs[3] = "transient"

-----------------------------------------------------------------------------
(* Properties of get_declarative_class *)

ResolutionOrder(table_name) ==
    <<to_pascal(table_name), Prefixed(table_name), table_name, Stripped(table_name)>>

FirstExisting(names, attrs) ==
    IF \E i \in 1..Len(names) : names[i] \in attrs
    THEN <<names[CHOOSE i \in 1..Len(names) :
                    /\ names[i] \in attrs
                    /\ \A j \in 1..(i - 1) : names[j] \notin attrs]>>
    ELSE <<>>

\* C6: on a loaded module the lookup returns the first name the module
\* exposes among PascalCase(n), "t_" + n, n and n without underscores, in that
\* order, and None (here <<>>) when it exposes none of them; for a_a the four
\* names are AA, t_a_a, a_a and aa.
NameResolutionOrder ==
    /\ lookup.done /\ lookup.module.loaded =>
          lookup.result = FirstExisting(ResolutionOrder(lookup.table_name),
                                        lookup.module.attrs)
    /\ lookup.table_name = <<"a", "_", "a">> =>
          ResolutionOrder(lookup.table_name) =
              << <<"A", "A">>, <<"t", "_", "a", "_", "a">>,
                 <<"a", "_", "a">>, <<"a", "a">> >>

\* The module exposes every spelling but the Pascal-cased one and the lookup
\* answered with the t_ one.
NameResolutionWitness ==
    /\ lookup.done /\ lookup.module.loaded
    /\ lookup.table_name = <<"a", "_", "a">>
    /\ lookup.module.attrs = {Prefixed(lookup.table_name), lookup.table_name,
                              Stripped(lookup.table_name)}
    /\ lookup.result = <<Prefixed(lookup.table_name)>>

-----------------------------------------------------------------------------
(* Properties of the declarative-module cache *)

HandleOf(key) == declarative_utils[key].declarative_module

\* C7 as stated: when refresh_module returns without raising, the handle is a
\* module exposing exactly the tables the schema has at that time.
RefreshExposesCurrentSchema ==
    lastOp.kind = "refresh" /\ lastOp.returned =>
        /\ HandleOf(lastOp.key).tag = "module"
        /\ modules[HandleOf(lastOp.key).mod].attrs =
              schema[declarative_utils[lastOp.key].tenant_id]

\* C8 as stated: a load that fails on an already defined binding is followed by
\* the removal of the base registration, a forced regeneration and a load, in
\* that order, and the handle then is the module of the artifact regenerated
\* in this call.
ConflictRecoveryReturnsRegenerated ==
    lastOp.kind = "get_binding" /\ "conflict" \in Range(lastOp.steps) =>
        /\ lastOp.steps = <<"conflict", "remove_base_class",
                            "prepare_declarative_file", "import_module">>
        /\ HandleOf(lastOp.key).tag = "module"
        /\ modules[HandleOf(lastOp.key).mod].stamp \in lastOp.wrote

\* C9 as stated: without the code-generation component no call ends the
\* process (and none raises).
CodegenAbsentNeverFatal ==
    ~modCfg.codegen => ~exited /\ ~(lastOp.kind = "get_binding" /\ lastOp.raised)

\* C10 as stated: with defer-regeneration enabled and the artifact present when
\* the call starts, get_binding acquires no session and writes no artifact.
DeferredLoadOnly ==
    modCfg.defer /\ lastOp.kind = "get_binding" /\ lastOp.fileBefore =>
        lastOp.sessions = 0 /\ lastOp.wrote = {}

\* C10 amended: with defer-regeneration enabled and the artifact present when
\* the call starts, get_binding acquires no session and writes no artifact
\* unless loading the artifact failed on an already defined binding; the
\* recovery from that conflict regenerates with refresh forced.
DeferredLoadOnlyUnlessConflict ==
    modCfg.defer /\ lastOp.kind = "get_binding" /\ lastOp.fileBefore =>
        \/ lastOp.sessions = 0 /\ lastOp.wrote = {}
        \/ "conflict" \in Range(lastOp.steps)

\* The second of two calls for a key was served from the table, the artifact
\* having been loaded without reflection although the generator is installed.
DeferredLoadWitness ==
    /\ modCfg.defer /\ modCfg.codegen
    /\ lastOp.kind = "get_binding" /\ lastOp.hit /\ lastOp.fileBefore
    /\ lastOp.sessions = 0 /\ lastOp.steps = <<>>
    /\ HandleOf(lastOp.key).tag = "module"
    /\ modules[HandleOf(lastOp.key).mod].stamp = 0

\* C11 as stated: every entry of the declarative_utils table holds a loaded
\* module as its handle, never None and never the import-path string.
EveryEntryLoaded ==
    \A key \in DOMAIN declarative_utils : HandleOf(key).tag = "module"

-----------------------------------------------------------------------------
(* Properties of run_postcreate and of the engine cache under failures *)

\* C12 as stated: when a manual hook raises, nothing the hook run executed is
\* persisted, the statements of the auto hooks of the same run included.
ManualFailureAbortsRun ==
    lastCall.manualFail => lastCall.applied = <<>>

\* C13 as stated: a call of _get_engine that raised (dependencies or a hook
\* failed during the creation) leaves no entry for its identity in the cache.
CacheHoldsOnlyCompleted ==
    lastCall.outcome = "raised" => lastCall.identity \notin DOMAIN db_engines

-----------------------------------------------------------------------------
(* Properties of _get_engine under threads *)

\* C14 as stated: with caching enabled, once every thread that called
\* get_engine for the identity has returned, one pool was created for it, all
\* callers hold that pool and each registered hook ran exactly once.
ConcurrentCreationOnce ==
    ~cfg.anti_persistent /\ (\A t \in Threads : threads[t].pc = "done") =>
        /\ created[ThreadIdentity] = 1
        /\ \A t1, t2 \in Threads : threads[t1].got = threads[t2].got
        /\ \A h \in Range(postcreate_auto[ThreadDb]) \cup Range(postcreate_manual[ThreadDb]) :
               Count(h, hookCalls[ThreadIdentity]) = 1

-----------------------------------------------------------------------------
(* Properties of the order of the hooks *)

IsPrefix(s, t) == Len(s) <= Len(t) /\ s = SubSeq(t, 1, Len(s))

\* The statements the auto hooks return, hook after hook, each list in its order.
RECURSIVE StatementsOf(_)
StatementsOf(hooks) ==
    IF hooks = <<>> THEN <<>>
    ELSE HookResult(Head(hooks)).items \o StatementsOf(Tail(hooks))

ManualStatementsOf(hooks) == [i \in 1..Len(hooks) |-> ManualStmt(hooks[i])]

\* The raw database an identity was asked for.
CallDb(q) ==
    CHOOSE d \in CallDbs : \E t \in TenantArgs : get_fully_qualified_db(d, t) = q

\* The hooks one call of _get_engine invoked.
CallsOfStep(q) == SubSeq(hookCalls'[q], Len(hookCalls[q]) + 1, Len(hookCalls'[q]))

\* A call that reached run_postcreate executed the statements of the auto
\* hooks in the order of the list (all of them unless one failed), called a
\* manual hook only after every auto hook had completed, and called the
\* manual hooks in the order of their list.
RunOrderStep ==
    nCalls' = nCalls + 1 /\ lastCall'.hooksStarted =>
        LET q == lastCall'.identity
            auto == postcreate_auto[CallDb(q)]
            manual == postcreate_manual[CallDb(q)]
            calls == CallsOfStep(q)
            manualCalls == SelectSeq(calls, LAMBDA h : h \in ManualHooks)
        IN /\ IsPrefix(lastCall'.autoDone, StatementsOf(auto))
           /\ ~lastCall'.autoFail => lastCall'.autoDone = StatementsOf(auto)
           /\ IsPrefix(calls, auto \o manual)
           /\ manualCalls # <<>> =>
                 /\ ~lastCall'.autoFail
                 /\ SubSeq(calls, 1, Len(auto)) = auto
           /\ IsPrefix(lastCall'.applied,
                       StatementsOf(auto) \o ManualStatementsOf(manual))
           /\ ~lastCall'.autoFail /\ ~lastCall'.manualFail =>
                 /\ calls = auto \o manual
                 /\ lastCall'.applied = StatementsOf(auto) \o ManualStatementsOf(manual)

\* A registration puts the function at the end of a list and moves nothing.
AppendOnlyStep ==
    \A db \in RawDbs :
        /\ IsPrefix(postcreate_auto[db], postcreate_auto'[db])
        /\ IsPrefix(postcreate_manual[db], postcreate_manual'[db])

\* A registered function is, once, in the list of each database it names and
\* in no other list of its store.
RegisteredForEachName ==
    \A d \in Decorated : IsRegistered(d.func) =>
        LET store == IF d.store = "_postcreate_auto" THEN postcreate_auto
                     ELSE postcreate_manual
        IN \A db \in RawDbs :
              Count(d.func, store[db]) = (IF db \in Range(d.raw_db) THEN 1 ELSE 0)

-----------------------------------------------------------------------------
(* Properties of the emergency exit *)

-----------------------------------------------------------------------------
(* Properties of the names *)

DelimiterFree(pair) ==
    ~ContainsDelimiter(pair[1]) /\ (pair[2].none \/ ~ContainsDelimiter(pair[2].chars))

\* C18 as stated: among the (raw database name, tenant id or None) pairs in
\* which no name contains "__", no pair other than the one formatted has the
\* same fully-qualified identity.
IdentityCollisionFree ==
    naming.done /\ naming.kind = "identity" /\ DelimiterFree(naming.args) =>
        \A other \in IdentityInputs :
            other # naming.args /\ DelimiterFree(other) =>
                QualifiedChars(other[1], other[2]) # naming.identity

\* C19 as stated: no (database, tenant, schema) triple other than the one
\* formatted has the same table key or the same module path.
BindingCollisionFree ==
    naming.done /\ naming.kind = "binding" =>
        \A other \in BindingInputs :
            other # naming.args =>
                /\ KeyChars(other[1], other[2], other[3]) # naming.key
                /\ PathChars(other[1], other[2], other[3]) # naming.path

-----------------------------------------------------------------------------
(* Properties of a failed generation *)

\* C20 as stated: a generation attempt that fails, at get_session, in the
\* reflection or inside the generator, leaves an artifact that was at the path
\* as it was.
FailedGenerationKeepsArtifact ==
    \A i \in 1..Len(lastOp.genFailures) :
        lastOp.genFailures[i].before.exists =>
            lastOp.genFailures[i].after = lastOp.genFailures[i].before

====
